---- MODULE Spec2Model ----
(***************************************************************************)
(* Model of mtapi/mtapi.py: the Mtapi object, its rebuild (_update), its   *)
(* staleness policy (is_expired) and its queries, run by reader threads    *)
(* and by the background timer thread.                                     *)
(*                                                                         *)
(* Time is counted in ticks of one minute: a datetime is the number of     *)
(* ticks since construction, expires_seconds is compared in seconds.       *)
(* A stop id is the sequence of its characters, so that rstrip('NS') is    *)
(* computed and not assumed.  A station name is its rank in the            *)
(* lexicographic order of the names.                                       *)
(***************************************************************************)
EXTENDS Integers, Sequences, FiniteSets, TLC

(***************************************************************************)
(* Bounds of the model.                                                    *)
(***************************************************************************)
\* the clock stops at MaxTime ticks
MaxTime == 2
\* at most MaxBuilds rebuilds are started after construction
MaxBuilds == 2
\* number of trip feed endpoints polled in a cycle (_FEED_URLS holds 8):
\* NumFeeds where the content of a rebuild is explored, ConcFeeds where the
\* interleaving of the threads is
NumFeeds == 2
ConcFeeds == 1

SecondsPerTick == 60

(***************************************************************************)
(* Threads.                                                                *)
(***************************************************************************)
Readers == {"r1", "r2"}
TimerThread == "timer"
Threads == Readers \cup {TimerThread}
NoThread == "none"

(***************************************************************************)
(* The station catalog (the stations file read by __init__).               *)
(***************************************************************************)
A1 == <<"A", "1">>
B1 == <<"B", "1">>
B2 == <<"B", "2">>
\* a stop the feeds know and the catalog does not
X9 == <<"X", "9">>

StationOrder == <<"A", "B">>
StationIds == {StationOrder[i] : i \in 1..Len(StationOrder)}

Catalog ==
    [A |-> [name |-> 2, location |-> <<0, 0>>, stops |-> {A1}],
     B |-> [name |-> 1, location |-> <<3, 4>>, stops |-> {B1, B2}]]

StopIds == UNION {Catalog[s].stops : s \in StationIds}

\* _build_stops_index: a later station of the file wins a stop listed twice
RECURSIVE StopOwner(_, _)
StopOwner(stop, i) ==
    IF i = 0 THEN "none"
    ELSE IF stop \in Catalog[StationOrder[i]].stops THEN StationOrder[i]
    ELSE StopOwner(stop, i - 1)

stops_to_stations == [stop \in StopIds |-> StopOwner(stop, Len(StationOrder))]

(***************************************************************************)
(* Route ids.  Feeds and callers give raw route ids, the code upper-cases  *)
(* them.                                                                   *)
(***************************************************************************)
RawRoutes == {"7", "l"}
Upper(r) == IF r = "l" THEN "L" ELSE IF r = "z" THEN "Z" ELSE r
\* "z" is a route no feed serves
QueryRoutes == RawRoutes \cup {"z"}
RouteIds == {Upper(r) : r \in QueryRoutes}

Directions == {"N", "S"}
\* trip.direction[0]
DirectionKey(d) == IF d = "NORTH" THEN "N" ELSE "S"

\* Python's None where a text is expected, and the absence of a datetime
None == "<None>"
NoTime == 0 - 1

(***************************************************************************)
(* Mtapi._Station                                                          *)
(***************************************************************************)
\* _Station.__init__ followed by nothing else: the catalog entry, no data
NewStation(json) ==
    [json |-> json,
     trains |-> [N |-> <<>>, S |-> <<>>],
     routes |-> {},
     last_update |-> NoTime,
     alerts |-> <<>>]

\* a clear_train_data that leaves the alerts
clear_train_data_keep_alerts(st) ==
    [st EXCEPT !.trains = [N |-> <<>>, S |-> <<>>],
               !.routes = {},
               !.last_update = NoTime]

clear_train_data(st) ==
    [st EXCEPT !.trains = [N |-> <<>>, S |-> <<>>],
               !.routes = {},
               !.last_update = NoTime,
               !.alerts = <<>>]

add_train(st, route_id, direction, train_time, feed_time) ==
    [st EXCEPT !.routes = @ \cup {route_id},
               !.trains[direction] = Append(@, [route |-> route_id, time |-> train_time]),
               !.last_update = feed_time]

HasAlertText(alerts, alert_text) ==
    \E i \in 1..Len(alerts) : alerts[i].header_text = alert_text

\* an add_alert that does not look at the alerts the station holds
add_alert_always(st, alert_type, alert_text) ==
    [st EXCEPT !.alerts = Append(@, [type |-> alert_type, header_text |-> alert_text])]

add_alert(st, alert_type, alert_text) ==
    IF ~HasAlertText(st.alerts, alert_text)
    THEN [st EXCEPT !.alerts = Append(@, [type |-> alert_type, header_text |-> alert_text])]
    ELSE st

\* sorted(seq, key=itemgetter('time')): the stable sort, in which an entry
\* comes after those of a smaller time and those of its time that were
\* before it
SortedByTime(seq) ==
    LET rank(i) == Cardinality({j \in 1..Len(seq) :
                       \/ seq[j].time < seq[i].time
                       \/ seq[j].time = seq[i].time /\ j < i}) + 1
    IN  [k \in 1..Len(seq) |-> seq[CHOOSE i \in 1..Len(seq) : rank(i) = k]]

\* seq[:n] for n >= 0
Prefix(seq, n) == SubSeq(seq, 1, IF n < Len(seq) THEN n ELSE Len(seq))

\* a sort_trains that cuts the lists before it sorts them
sort_trains_cut_first(st, max_trains) ==
    [st EXCEPT !.trains = [S |-> SortedByTime(Prefix(st.trains["S"], max_trains)),
                           N |-> SortedByTime(Prefix(st.trains["N"], max_trains))]]

sort_trains(st, max_trains) ==
    [st EXCEPT !.trains = [S |-> Prefix(SortedByTime(st.trains["S"]), max_trains),
                           N |-> Prefix(SortedByTime(st.trains["N"]), max_trains)]]

serialize(st) ==
    [service_alerts |-> st.alerts,
     N |-> st.trains["N"],
     S |-> st.trains["S"],
     routes |-> st.routes,
     last_update |-> st.last_update,
     name |-> st.json.name,
     location |-> st.json.location,
     stops |-> st.json.stops]

(***************************************************************************)
(* The route index: routes = defaultdict(set).  keys are the route ids the *)
(* dict holds, at[r] the stop ids of r (empty for a route not held).       *)
(***************************************************************************)
EmptyRoutes == [keys |-> {}, at |-> [r \in RouteIds |-> {}]]

\* routes[route_id].add(stop_id)
RoutesAdd(rt, route_id, stop_id) ==
    [keys |-> rt.keys \cup {route_id},
     at |-> [rt.at EXCEPT ![route_id] = @ \cup {stop_id}]]

\* routes[route]: reading a defaultdict inserts the missing key
RoutesGet(rt, route) == [rt EXCEPT !.keys = @ \cup {route}]

(***************************************************************************)
(* _update, lines 197-232: one trip feed.  A decoded feed is               *)
(*   [timestamp, entity: Seq of trips],                                    *)
(* a trip [valid, route_id, direction, stop_time_update: Seq of            *)
(* [stop_id, time]].  w is the working state [stations, routes] of the     *)
(* rebuild, lu the value of self._last_update read while the feed is       *)
(* processed.                                                              *)
(***************************************************************************)
ProcessUpdate(w, route_id, direction, upd, feed_time, lu, max_time) ==
    IF upd.time < lu \/ upd.time > max_time THEN w
    ELSE IF upd.stop_id \notin DOMAIN stops_to_stations THEN w
    ELSE LET station_id == stops_to_stations[upd.stop_id]
         IN  [stations |-> [w.stations EXCEPT ![station_id] =
                                add_train(@, route_id, direction, upd.time, feed_time)],
              routes |-> RoutesAdd(w.routes, route_id, upd.stop_id)]

RECURSIVE ProcessUpdates(_, _, _, _, _, _, _, _)
ProcessUpdates(w, route_id, direction, upds, i, feed_time, lu, max_time) ==
    IF i > Len(upds) THEN w
    ELSE ProcessUpdates(
             ProcessUpdate(w, route_id, direction, upds[i], feed_time, lu, max_time),
             route_id, direction, upds, i + 1, feed_time, lu, max_time)

ProcessTrip(w, trip, feed_time, lu, max_time) ==
    IF ~trip.valid THEN w
    ELSE ProcessUpdates(w, Upper(trip.route_id), DirectionKey(trip.direction),
                        trip.stop_time_update, 1, feed_time, lu, max_time)

RECURSIVE ProcessEntities(_, _, _, _, _, _)
ProcessEntities(w, entities, i, feed_time, lu, max_time) ==
    IF i > Len(entities) THEN w
    ELSE ProcessEntities(ProcessTrip(w, entities[i], feed_time, lu, max_time),
                         entities, i + 1, feed_time, lu, max_time)

ProcessFeed(w, mta_data, lu, max_minutes) ==
    ProcessEntities(w, mta_data.entity, 1, mta_data.timestamp, lu, lu + max_minutes)

(***************************************************************************)
(* Service alerts.  An alert entity is                                     *)
(*   [active_period: Seq of [start, end], translation: Seq of              *)
(*    [language, text], informed_entity: Seq of                            *)
(*    [has_stop, stop_id, has_route, route_id]];                           *)
(* end = 0 is a period with no end.                                        *)
(***************************************************************************)
_is_alert_currently_active(entity, current_timestamp) ==
    \E i \in 1..Len(entity.active_period) :
        LET period == entity.active_period[i]
        IN  period.start <= current_timestamp
            /\ (period.end = 0 \/ period.end >= current_timestamp)

\* the local english_text before its first assignment
Unbound == "<UnboundLocalError>"

RECURSIVE AlertTextLoop(_, _, _, _)
AlertTextLoop(tr, i, english_text, language) ==
    IF i > Len(tr) THEN english_text
    ELSE IF tr[i].language = language THEN tr[i].text
    ELSE AlertTextLoop(tr, i + 1,
                       IF tr[i].language = "en" THEN tr[i].text ELSE None,
                       language)

\* returns Unbound when the return statement raises UnboundLocalError
_get_alert_text(entity, language) == AlertTextLoop(entity.translation, 1, Unbound, language)

_get_station_routes(st) ==
    UNION {{st.trains[d][i].route : i \in 1..Len(st.trains[d])} : d \in Directions}

\* str.rstrip('NS'): every trailing N or S is removed
RECURSIVE RStripNS(_)
RStripNS(s) ==
    IF s = <<>> THEN s
    ELSE IF s[Len(s)] \in {"N", "S"} THEN RStripNS(SubSeq(s, 1, Len(s) - 1))
    ELSE s

_alert_applies_to_stop(informed, station_stops) ==
    IF ~informed.has_stop THEN FALSE
    ELSE LET alert_stop == informed.stop_id
             alert_stop_base == RStripNS(alert_stop)
         IN  \E stop \in station_stops : stop \in {alert_stop, alert_stop_base}

(***************************************************************************)
(* _update, lines 249-258: the informed entities of one alert, for one     *)
(* station; the first that matches adds the alert and ends the loop.       *)
(***************************************************************************)
RECURSIVE InformedLoop(_, _, _, _, _)
InformedLoop(st, station_routes, informed, i, alert_text) ==
    IF i > Len(informed) THEN st
    ELSE IF _alert_applies_to_stop(informed[i], st.json.stops)
         THEN add_alert(st, "stop", alert_text)
    ELSE IF informed[i].has_route /\ informed[i].route_id \in station_routes
         THEN add_alert(st, "route", alert_text)
    ELSE InformedLoop(st, station_routes, informed, i + 1, alert_text)

\* lines 244-258 for one station: [raised, st]; raised when _get_alert_text raises
RECURSIVE AlertLoop(_, _, _, _)
AlertLoop(st, station_routes, service_alerts, i) ==
    IF i > Len(service_alerts) THEN [raised |-> FALSE, st |-> st]
    ELSE LET alert_text == _get_alert_text(service_alerts[i], "en-html")
         IN  IF alert_text = Unbound THEN [raised |-> TRUE, st |-> st]
             ELSE IF alert_text \in {None, ""}
                  THEN AlertLoop(st, station_routes, service_alerts, i + 1)
             ELSE AlertLoop(InformedLoop(st, station_routes,
                                         service_alerts[i].informed_entity, 1, alert_text),
                            station_routes, service_alerts, i + 1)

\* lines 239-258: [raised, stations]
AttachAlerts(stations, get_service_alerts, service_alerts) ==
    IF get_service_alerts /\ service_alerts # <<>>
    THEN LET r == [id \in DOMAIN stations |->
                      AlertLoop(stations[id], _get_station_routes(stations[id]),
                                service_alerts, 1)]
         IN  [raised |-> \E id \in DOMAIN stations : r[id].raised,
              stations |-> [id \in DOMAIN stations |-> r[id].st]]
    ELSE [raised |-> FALSE, stations |-> stations]

\* lines 235-237
SortAll(stations, max_trains) ==
    [id \in DOMAIN stations |-> sort_trains(stations[id], max_trains)]

\* a working copy that is not cleared
UnclearedCopy(stations) == stations

\* lines 174-179: the working copy, a deep copy of every station, cleared
ClearedCopy(stations) ==
    [id \in DOMAIN stations |-> clear_train_data(stations[id])]

\* lines 190-195: the active alerts of a decoded alerts feed, in feed order
RECURSIVE ActiveAlerts(_, _, _)
ActiveAlerts(entities, i, current_timestamp) ==
    IF i > Len(entities) THEN <<>>
    ELSE (IF _is_alert_currently_active(entities[i], current_timestamp)
          THEN <<entities[i]>> ELSE <<>>)
         \o ActiveAlerts(entities, i + 1, current_timestamp)

(***************************************************************************)
(* Queries.                                                                *)
(***************************************************************************)
\* list.sort and sorted on a sequence of [key, val]: the stable sort,
\* ascending by key
SortByKey(seq) ==
    LET rank(i) == Cardinality({j \in 1..Len(seq) :
                       \/ seq[j].key < seq[i].key
                       \/ seq[j].key = seq[i].key /\ j < i}) + 1
    IN  [k \in 1..Len(seq) |-> seq[CHOOSE i \in 1..Len(seq) : rank(i) = k]]

Vals(pairs) == [i \in 1..Len(pairs) |-> pairs[i].val]

\* distance(p1, p2) squared: sqrt is monotone, the order of the squares is
\* the order of the distances
distance(p1, p2) == (p2[1] - p1[1]) * (p2[1] - p1[1]) + (p2[2] - p1[2]) * (p2[2] - p1[2])

\* a get_by_point that leaves the stations in the order of the dict
get_by_point_unsorted(map, point, limit) ==
    [k \in 1..(IF limit < Len(StationOrder) THEN limit ELSE Len(StationOrder)) |->
        serialize(map[StationOrder[k]])]

\* lines 272-277, on the station map read under the lock: the stations in
\* the order of the dict, sorted by distance, serialized, the first limit
get_by_point(map, point, limit) ==
    LET sorted_stations ==
            SortByKey([i \in 1..Len(StationOrder) |->
                          [key |-> distance(map[StationOrder[i]].json.location, point),
                           val |-> StationOrder[i]]])
    IN  [k \in 1..(IF limit < Len(StationOrder) THEN limit ELSE Len(StationOrder)) |->
            serialize(map[sorted_stations[k].val])]

\* every order in which a set can be iterated
Orders(S) ==
    {f \in [1..Cardinality(S) -> S] : \A i, j \in 1..Cardinality(S) : i # j => f[i] # f[j]}

\* lines 289-292, on the stop ids of the route in iteration order
get_by_route(map, stops) ==
    LET out == [i \in 1..Len(stops) |->
                   LET rec == serialize(map[stops_to_stations[stops[i]]])
                   IN  [key |-> rec.name, val |-> rec]]
    IN  Vals(SortByKey(out))

\* line 299
KeyError(map, ids) == \E i \in 1..Len(ids) : ids[i] \notin DOMAIN map
get_by_id(map, ids) ==
    [i \in 1..Len(ids) |-> serialize(map[ids[i]])]

(***************************************************************************)
(* The timer helper (_MtapiThreader): one timer thread that starts a       *)
(* rebuild every expires_seconds; restart_if_dead() restarts the timer and *)
(* reports true exactly when it found the timer thread dead.               *)
(***************************************************************************)
restart_if_dead(th, n) ==
    IF th.alive THEN [ret |-> FALSE, th |-> th]
    ELSE [ret |-> TRUE, th |-> [alive |-> TRUE, last |-> n]]

(***************************************************************************)
(* State.                                                                  *)
(***************************************************************************)
VARIABLES
    cfg,            \* the constructor's arguments
    now,            \* datetime.datetime.now(TZ)
    _last_update,   \* self._last_update
    _stations,      \* self._stations: [obj, ts, src, alerts_src, alerts, added,
                    \* had_alerts, map]
    _routes,        \* self._routes: [obj, keys, at]
    _read_lock,     \* owner of self._read_lock
    threader,       \* self.threader: [alive, last], the timer thread and its last start or rebuild
    pc,             \* where each thread is
    local,          \* the locals of each thread's call
    nextObj,        \* number of rebuilds started
    maxPub          \* greatest build timestamp published so far

vars == <<cfg, now, _last_update, _stations, _routes, _read_lock, threader,
          pc, local, nextObj, maxPub>>

\* __init__, lines 97-100: a _Station for every entry of the stations file
InitialStations == [id \in StationIds |-> NewStation(Catalog[id])]

\* _load_mta_feed returned False
Failed == [ok |-> FALSE, timestamp |-> 0, entity |-> <<>>]

NoQuery == [kind |-> "none", route |-> "", ids |-> <<>>, point |-> <<0, 0>>, limit |-> 0]

\* the locals of a thread that runs nothing
IdleLocal ==
    [\* the query: its arguments; when it was called, whether another thread
     \* was rebuilding and the greatest build timestamp published
     q |-> NoQuery, busy |-> FALSE, pub |-> NoTime,
     \* _update: the object being built (0: no rebuild), its build timestamp,
     \* the working stations and routes, the active alerts, the endpoint
     \* being fetched, what each endpoint returned
     obj |-> 0, ts |-> NoTime,
     stations |-> InitialStations, routes |-> EmptyRoutes, service_alerts |-> <<>>,
     i |-> 0, got |-> <<>>,
     \* what the alerts endpoint returned
     got_alerts |-> Failed,
     \* the working stations before line 235
     added |-> InitialStations,
     \* the read: the objects read, and the result
     rt_obj |-> 0, stops |-> {}, st_obj |-> 0, st_ts |-> NoTime,
     error |-> "", out |-> <<>>, keys |-> {}]

\* a thread at one of these is inside _update
BuildPcs == {"alerts", "feed", "publish", "set_stations"}
\* a thread at one of these is in a blocking network call (_load_mta_feed)
FetchPcs == {"alerts", "feed"}

(***************************************************************************)
(* Initial state: the object as __init__ leaves it at time 0, after a      *)
(* first _update in which no endpoint answered.                            *)
(***************************************************************************)
InitWith(configs, feeds) ==
    /\ cfg \in configs
    /\ now = 0
    /\ _last_update = 0
    /\ _stations = [obj |-> 0, ts |-> 0, src |-> [i \in 1..feeds |-> Failed],
                    alerts_src |-> Failed, alerts |-> <<>>,
                    added |-> ClearedCopy(InitialStations), had_alerts |-> {},
                    map |-> ClearedCopy(InitialStations)]
    /\ _routes = [obj |-> 0, keys |-> {}, at |-> EmptyRoutes.at]
    /\ _read_lock = NoThread
    /\ threader = [alive |-> cfg.THREADED, last |-> 0]
    /\ pc = [t \in Threads |-> "idle"]
    /\ local = [t \in Threads |-> IdleLocal]
    /\ nextObj = 0
    /\ maxPub = 0

(***************************************************************************)
(* is_expired, lines 303-310: [ret, th], th the timer helper afterwards.   *)
(***************************************************************************)
is_expired(c, th, n, lu) ==
    LET r == IF c.THREADED THEN restart_if_dead(th, n) ELSE [ret |-> FALSE, th |-> th]
        age == (n - lu) * SecondsPerTick
    IN  IF c.THREADED /\ r.ret THEN [ret |-> FALSE, th |-> r.th]
        ELSE IF c.EXPIRES_SECONDS # 0 THEN [ret |-> age > c.EXPIRES_SECONDS, th |-> r.th]
        ELSE [ret |-> FALSE, th |-> r.th]

\* a with block that takes no lock
CanAcquireUnlocked(t) == t \in Threads

\* with self._read_lock: the lock is free, or held by the thread itself (RLock)
CanAcquire(t) == _read_lock \in {NoThread, t}

\* some other thread is inside _update
OthersRebuilding(t) == \E u \in Threads \ {t} : pc[u] \in BuildPcs

\* the rebuilds started or about to start: the model stops at MaxBuilds
Started == nextObj + Cardinality({u \in Threads : pc[u] = "update"})

\* the reader threads that call the object: in active mode one reader is
\* modelled beside the timer thread
Callers == IF cfg.THREADED THEN {"r1"} ELSE Readers

\* get_by_point, get_by_route or get_by_id is called and runs is_expired
\* (lines 268, 285, 295); the arguments are drawn where they are first used
QueryCall(t) ==
    /\ t \in Callers
    /\ pc[t] = "idle"
    /\ LET e == is_expired(cfg, threader, now, _last_update)
       IN  /\ e.ret => Started < MaxBuilds
           /\ threader' = e.th
           /\ pc' = [pc EXCEPT ![t] = IF e.ret THEN "update" ELSE "read"]
    /\ local' = [local EXCEPT ![t] = [IdleLocal EXCEPT !.busy = OthersRebuilding(t),
                                                       !.pub = maxPub]]
    /\ UNCHANGED <<cfg, now, _last_update, _stations, _routes, _read_lock, nextObj, maxPub>>

(***************************************************************************)
(* _update, in the steps at which other threads can interleave.            *)
(***************************************************************************)
\* a rebuild that takes the lock for the whole build
UpdateStartLocked(t) ==
    /\ pc[t] = "update"
    /\ CanAcquire(t)
    /\ _read_lock' = t
    /\ _last_update' = now
    /\ nextObj' = nextObj + 1
    /\ local' = [local EXCEPT ![t].obj = nextObj + 1,
                              ![t].ts = now,
                              ![t].stations = ClearedCopy(_stations.map),
                              ![t].routes = EmptyRoutes,
                              ![t].service_alerts = <<>>,
                              ![t].i = 1,
                              ![t].got = <<>>]
    /\ pc' = [pc EXCEPT ![t] = IF cfg.GET_SERVICE_ALERTS THEN "alerts" ELSE "feed"]
    /\ UNCHANGED <<cfg, now, _stations, _routes, threader, maxPub>>

\* lines 171-181
UpdateStart(t) ==
    /\ pc[t] = "update"
    /\ _last_update' = now
    /\ nextObj' = nextObj + 1
    /\ local' = [local EXCEPT ![t].obj = nextObj + 1,
                              ![t].ts = now,
                              ![t].stations = ClearedCopy(_stations.map),
                              ![t].routes = EmptyRoutes,
                              ![t].service_alerts = <<>>,
                              ![t].i = 1,
                              ![t].got = <<>>]
    /\ pc' = [pc EXCEPT ![t] = IF cfg.GET_SERVICE_ALERTS THEN "alerts" ELSE "feed"]
    /\ UNCHANGED <<cfg, now, _stations, _routes, _read_lock, threader, maxPub>>

\* lines 183-195: the alerts feed is fetched and filtered
UpdateAlerts(t, menu) ==
    /\ pc[t] = "alerts"
    /\ \E service_alerts_feed \in menu \cup {Failed} :
           local' = [local EXCEPT ![t].got_alerts = service_alerts_feed,
                                  ![t].service_alerts =
                        IF service_alerts_feed.ok
                        THEN ActiveAlerts(service_alerts_feed.entity, 1, _last_update)
                        ELSE <<>>]
    /\ pc' = [pc EXCEPT ![t] = "feed"]
    /\ UNCHANGED <<cfg, now, _last_update, _stations, _routes, _read_lock, threader,
                   nextObj, maxPub>>

\* the locals of a query whose _update has ended
AfterUpdate(t, error) ==
    IF t \in Readers
    THEN [IdleLocal EXCEPT !.busy = local[t].busy, !.pub = local[t].pub,
                           !.obj = local[t].obj,
                           !.ts = local[t].ts, !.error = error,
                           !.got_alerts = IF error = "" THEN Failed ELSE local[t].got_alerts]
    ELSE IdleLocal

\* lines 197-232: the trip feed of endpoint local[t].i is fetched and
\* processed; after the last endpoint, lines 235-258: sort, truncate, attach
\* the alerts.  An exception of _get_alert_text ends _update and the query
\* that called it.
UpdateFeed(t, menu, feeds) ==
    /\ pc[t] = "feed"
    /\ \E mta_data \in menu \cup {Failed} :
           LET w0 == [stations |-> local[t].stations, routes |-> local[t].routes]
               w == IF mta_data.ok
                    THEN ProcessFeed(w0, mta_data, _last_update, cfg.MAX_MINUTES)
                    ELSE w0
               r == AttachAlerts(SortAll(w.stations, cfg.MAX_TRAINS),
                                 cfg.GET_SERVICE_ALERTS, local[t].service_alerts)
           IN  IF local[t].i < feeds
               THEN /\ local' = [local EXCEPT ![t].stations = w.stations,
                                              ![t].routes = w.routes,
                                              ![t].got = Append(@, mta_data),
                                              ![t].i = @ + 1]
                    /\ pc' = pc
               ELSE IF r.raised
               THEN /\ local' = [local EXCEPT ![t] = AfterUpdate(t, "UnboundLocalError")]
                    /\ pc' = [pc EXCEPT ![t] = IF t \in Readers THEN "done" ELSE "idle"]
               ELSE /\ local' = [local EXCEPT ![t].stations = r.stations,
                                              ![t].added = w.stations,
                                              ![t].routes = w.routes,
                                              ![t].got = Append(@, mta_data),
                                              ![t].i = @ + 1]
                    /\ pc' = [pc EXCEPT ![t] = "publish"]
    /\ UNCHANGED <<cfg, now, _last_update, _stations, _routes, _read_lock, threader,
                   nextObj, maxPub>>

\* lines 260-261: the lock is taken and self._routes assigned
PublishRoutes(t) ==
    /\ pc[t] = "publish"
    /\ CanAcquire(t)
    /\ _read_lock' = t
    /\ _routes' = [obj |-> local[t].obj, keys |-> local[t].routes.keys,
                   at |-> local[t].routes.at]
    /\ pc' = [pc EXCEPT ![t] = "set_stations"]
    /\ UNCHANGED <<cfg, now, _last_update, _stations, threader, local, nextObj, maxPub>>

\* line 262, and the end of the with block; a query goes on to its read
PublishStations(t) ==
    /\ pc[t] = "set_stations"
    /\ _stations' = [obj |-> local[t].obj, ts |-> local[t].ts, src |-> local[t].got,
                     alerts_src |-> local[t].got_alerts,
                     alerts |-> local[t].service_alerts, added |-> local[t].added,
                     had_alerts |-> {id \in StationIds : _stations.map[id].alerts # <<>>},
                     map |-> local[t].stations]
    /\ _read_lock' = NoThread
    /\ maxPub' = IF local[t].ts > maxPub THEN local[t].ts ELSE maxPub
    /\ pc' = [pc EXCEPT ![t] = IF t \in Readers THEN "read" ELSE "idle"]
    /\ local' = [local EXCEPT ![t] = AfterUpdate(t, "")]
    /\ UNCHANGED <<cfg, now, _last_update, _routes, threader, nextObj>>

(***************************************************************************)
(* The read of a query, under self._read_lock.                             *)
(***************************************************************************)
\* lines 271-277
GetByPoint(t, points, limits) ==
    /\ pc[t] = "read"
    /\ CanAcquire(t)
    /\ \E point \in points, limit \in limits :
           local' = [local EXCEPT
               ![t].q = [NoQuery EXCEPT !.kind = "get_by_point", !.point = point,
                                        !.limit = limit],
               ![t].st_obj = _stations.obj,
               ![t].st_ts = _stations.ts,
               ![t].out = get_by_point(_stations.map, point, limit)]
    /\ pc' = [pc EXCEPT ![t] = "done"]
    /\ UNCHANGED <<cfg, now, _last_update, _stations, _routes, _read_lock, threader,
                   nextObj, maxPub>>

\* lines 298-301; an unknown id raises KeyError
GetById(t, idlists) ==
    /\ pc[t] = "read"
    /\ CanAcquire(t)
    /\ \E ids \in idlists :
           local' = [local EXCEPT
               ![t].q = [NoQuery EXCEPT !.kind = "get_by_id", !.ids = ids],
               ![t].st_obj = _stations.obj,
               ![t].st_ts = _stations.ts,
               ![t].error = IF KeyError(_stations.map, ids) THEN "KeyError" ELSE @,
               ![t].out = IF KeyError(_stations.map, ids) THEN <<>>
                          ELSE get_by_id(_stations.map, ids)]
    /\ pc' = [pc EXCEPT ![t] = "done"]
    /\ UNCHANGED <<cfg, now, _last_update, _stations, _routes, _read_lock, threader,
                   nextObj, maxPub>>

\* lines 283, 288-289: the lock is taken and self._routes[route] read; the
\* defaultdict gains the key it lacks
GetByRoute(t, routes) ==
    /\ pc[t] = "read"
    /\ CanAcquire(t)
    /\ _read_lock' = t
    /\ \E r \in routes :
           LET route == Upper(r)
           IN  /\ local' = [local EXCEPT
                      ![t].q = [NoQuery EXCEPT !.kind = "get_by_route", !.route = route],
                      ![t].stops = _routes.at[route],
                      ![t].keys = _routes.keys,
                      ![t].rt_obj = _routes.obj]
               /\ _routes' = RoutesGet(_routes, route)
    /\ pc' = [pc EXCEPT ![t] = "read_stations"]
    /\ UNCHANGED <<cfg, now, _last_update, _stations, threader, nextObj, maxPub>>

\* lines 289-292: self._stations is read for every stop of the route, the
\* lock released, the result sorted
GetByRouteStations(t) ==
    /\ pc[t] = "read_stations"
    /\ \E order \in Orders(local[t].stops) :
           local' = [local EXCEPT
               ![t].st_obj = _stations.obj,
               ![t].st_ts = _stations.ts,
               ![t].out = get_by_route(_stations.map, order)]
    /\ _read_lock' = NoThread
    /\ pc' = [pc EXCEPT ![t] = "done"]
    /\ UNCHANGED <<cfg, now, _last_update, _stations, _routes, threader, nextObj, maxPub>>

\* lines 279-280: no staleness check, no lock
GetRoutes(t) ==
    /\ t \in Callers
    /\ pc[t] = "idle"
    /\ pc' = [pc EXCEPT ![t] = "done"]
    /\ local' = [local EXCEPT ![t] =
           [IdleLocal EXCEPT !.q = [NoQuery EXCEPT !.kind = "get_routes"],
                             !.keys = _routes.keys,
                             !.rt_obj = _routes.obj]]
    /\ UNCHANGED <<cfg, now, _last_update, _stations, _routes, _read_lock, threader,
                   nextObj, maxPub>>

\* the call returns, or raises, to its caller
Return(t) ==
    /\ pc[t] = "done"
    /\ pc' = [pc EXCEPT ![t] = "idle"]
    /\ local' = [local EXCEPT ![t] = IdleLocal]
    /\ UNCHANGED <<cfg, now, _last_update, _stations, _routes, _read_lock, threader,
                   nextObj, maxPub>>

(***************************************************************************)
(* The clock and the timer thread.                                         *)
(***************************************************************************)
Tick(bound) ==
    /\ now < bound
    /\ now' = now + 1
    /\ UNCHANGED <<cfg, _last_update, _stations, _routes, _read_lock, threader,
                   pc, local, nextObj, maxPub>>

\* the timer thread has slept expires_seconds: it starts a rebuild, unless
\* its previous one still runs
TimerFire ==
    /\ cfg.THREADED
    /\ threader.alive
    /\ pc[TimerThread] = "idle"
    /\ Started < MaxBuilds
    /\ (now - threader.last) * SecondsPerTick >= cfg.EXPIRES_SECONDS
    /\ threader' = [threader EXCEPT !.last = now]
    /\ pc' = [pc EXCEPT ![TimerThread] = "update"]
    /\ UNCHANGED <<cfg, now, _last_update, _stations, _routes, _read_lock, local,
                   nextObj, maxPub>>

\* the timer thread dies
TimerDie ==
    /\ cfg.THREADED
    /\ threader.alive
    /\ threader' = [threader EXCEPT !.alive = FALSE]
    /\ UNCHANGED <<cfg, now, _last_update, _stations, _routes, _read_lock, pc, local,
                   nextObj, maxPub>>

(***************************************************************************)
(* What the endpoints return.                                              *)
(***************************************************************************)
Trip(route_id, direction, upds) ==
    [valid |-> TRUE, route_id |-> route_id, direction |-> direction,
     stop_time_update |-> upds]
Stop(stop_id, time) == [stop_id |-> stop_id, time |-> time]
Feed(n, entities) == [ok |-> TRUE, timestamp |-> n, entity |-> entities]

Informed(has_stop, stop_id, has_route, route_id) ==
    [has_stop |-> has_stop, stop_id |-> stop_id,
     has_route |-> has_route, route_id |-> route_id]
Alert(periods, translation, informed) ==
    [active_period |-> periods, translation |-> translation,
     informed_entity |-> informed]
Tr(language, text) == [language |-> language, text |-> text]
Always == <<[start |-> 0, end |-> 0]>>

\* the feeds of the interleaving model: an arrival at minute 2 and one at
\* minute 4, and one alert, which has no header text
ConcTripFeeds ==
    {Feed(1, <<Trip("7", "NORTH", <<Stop(A1, 2), Stop(B1, 4)>>)>>)}
ConcAlertFeeds ==
    {Feed(1, <<Alert(Always, <<>>, <<Informed(TRUE, A1, FALSE, "")>>)>>)}

Config(threaded, expires_seconds, service_alerts, max_trains, max_minutes) ==
    [THREADED |-> threaded, EXPIRES_SECONDS |-> expires_seconds,
     GET_SERVICE_ALERTS |-> service_alerts, MAX_TRAINS |-> max_trains,
     MAX_MINUTES |-> max_minutes]

ConcConfigs ==
    {Config(FALSE, 30, TRUE, 1, 2), Config(FALSE, 0, FALSE, 1, 2),
     Config(TRUE, 30, FALSE, 1, 2)}

(***************************************************************************)
(* Spec: reader threads and the timer thread interleave.                   *)
(***************************************************************************)
Init == InitWith(ConcConfigs, ConcFeeds)

Next ==
    \/ \E t \in Readers : QueryCall(t)
    \/ \E t \in Threads : UpdateStart(t)
    \/ \E t \in Threads : UpdateAlerts(t, ConcAlertFeeds)
    \/ \E t \in Threads : UpdateFeed(t, ConcTripFeeds, ConcFeeds)
    \/ \E t \in Threads : PublishRoutes(t)
    \/ \E t \in Threads : PublishStations(t)
    \/ \E t \in Readers : GetByPoint(t, {<<0, 0>>}, {1})
    \/ \E t \in Readers : GetById(t, {<<"A">>})
    \/ \E t \in Readers : GetByRoute(t, {"7"})
    \/ \E t \in Readers : GetByRouteStations(t)
    \/ \E t \in Readers : GetRoutes(t)
    \/ \E t \in Readers : Return(t)
    \/ Tick(MaxTime)
    \/ TimerFire
    \/ TimerDie

Spec == Init /\ [][Next]_vars

(***************************************************************************)
(* FairSpec: Spec with the scheduling the threads get.  A thread that can  *)
(* run its next step runs it, and a thread that waits for the lock gets it *)
(* if it is free again and again.  Nothing makes a feed answer: the fetch  *)
(* steps UpdateAlerts and UpdateFeed are under no fairness and may hang.   *)
(* Nor is a caller bound to call.                                          *)
(***************************************************************************)
\* the read of a query by t: one of the three locked reads of Next
Read(t) ==
    \/ GetByPoint(t, {<<0, 0>>}, {1})
    \/ GetById(t, {<<"A">>})
    \/ GetByRoute(t, {"7"})

\* the steps of thread t that wait for no feed
Runs(t) ==
    \/ UpdateStart(t)
    \/ PublishRoutes(t)
    \/ PublishStations(t)
    \/ Read(t)
    \/ GetByRouteStations(t)
    \/ Return(t)

FairSpec ==
    /\ Init
    /\ [][Next]_vars
    /\ \A t \in Threads : SF_vars(Runs(t))

(***************************************************************************)
(* SpecBuild: one caller in passive mode, and what a rebuild makes of what *)
(* the endpoints return.                                                   *)
(***************************************************************************)
\* a trip for which Trip.is_valid() is false
InvalidTrip == [valid |-> FALSE, route_id |-> "7", direction |-> "NORTH",
                stop_time_update |-> <<[stop_id |-> A1, time |-> 2]>>]

\* the trip feeds: arrivals out of time order at one platform, at a stop the
\* catalog lacks, before and after the window, in both directions; and an
\* empty response
BuildTripFeeds ==
    {Feed(1, <<Trip("7", "NORTH", <<Stop(A1, 3), Stop(B1, 2), Stop(X9, 2)>>),
               InvalidTrip>>),
     Feed(2, <<Trip("l", "NORTH", <<Stop(A1, 2)>>),
               Trip("7", "SOUTH", <<Stop(B2, 1), Stop(B1, 5)>>)>>),
     Feed(2, <<>>)}

\* the alerts feeds.  One holds two alerts of one text, of which one names
\* a platform of station A with its direction suffix and the other route 7,
\* an alert that is not active before minute 2, one whose header has an
\* English and a Spanish text and one that names a platform with two suffix
\* characters; the other holds an alert whose header has no text
BuildAlertFeeds ==
    {Feed(1, <<Alert(Always, <<Tr("en-html", "T1")>>,
                     <<Informed(FALSE, <<>>, TRUE, "L"),
                       Informed(TRUE, A1 \o <<"N">>, FALSE, "")>>),
               Alert(Always, <<Tr("es", "T0"), Tr("en-html", "T1")>>,
                     <<Informed(FALSE, <<>>, TRUE, "7")>>),
               Alert(<<[start |-> 2, end |-> 3]>>, <<Tr("en-html", "T2")>>,
                     <<Informed(TRUE, B1, FALSE, "")>>),
               Alert(Always, <<Tr("en", "T3"), Tr("es", "T0")>>,
                     <<Informed(FALSE, <<>>, TRUE, "7")>>),
               Alert(Always, <<Tr("en-html", "T4")>>,
                     <<Informed(TRUE, B2 \o <<"N", "S">>, FALSE, "")>>)>>),
     Feed(1, <<Alert(Always, <<>>, <<Informed(TRUE, A1, FALSE, "")>>)>>)}

BuildConfigs == {Config(FALSE, 30, TRUE, 1, 2), Config(FALSE, 30, FALSE, 2, 2)}

BuildPoints == {<<0, 0>>, <<2, 3>>}
BuildLimits == {1, 3}
\* "Q" is no station of the catalog
BuildIds == {<<"A">>, <<"B", "A">>, <<"B", "Q">>}
BuildRoutes == {"7", "z"}

Caller == "r1"

InitBuild == InitWith(BuildConfigs, NumFeeds)

NextBuild ==
    \/ QueryCall(Caller)
    \/ UpdateStart(Caller)
    \/ UpdateAlerts(Caller, BuildAlertFeeds)
    \/ UpdateFeed(Caller, BuildTripFeeds, NumFeeds)
    \/ PublishRoutes(Caller)
    \/ PublishStations(Caller)
    \/ GetByPoint(Caller, BuildPoints, BuildLimits)
    \/ GetById(Caller, BuildIds)
    \/ GetByRoute(Caller, BuildRoutes)
    \/ GetByRouteStations(Caller)
    \/ GetRoutes(Caller)
    \/ Return(Caller)
    \/ Tick(MaxTime)

SpecBuild == InitBuild /\ [][NextBuild]_vars

(***************************************************************************)
(* Properties of the interleaving model.                                   *)
(***************************************************************************)
ReadKinds == {"get_by_point", "get_by_route", "get_by_id"}

\* thread t has returned from the read of a query
HasRead(t) == pc[t] = "done" /\ local[t].q.kind \in ReadKinds

\* the step is the call of a query by t: is_expired has answered
IsCall(t) == pc[t] = "idle" /\ pc'[t] \in {"update", "read"}

\* C1: a query reads a station map and a route index that one completed
\* rebuild published together: what get_by_route read of both is of one
\* build, the pair readers can see is of one build whenever the lock is
\* free, the object a rebuild works on is not one readers can see, and no
\* step of a rebuild before its publish changes what readers see.
C1_Consistent ==
    /\ \A t \in Readers :
           HasRead(t) /\ local[t].q.kind = "get_by_route"
               => local[t].rt_obj = local[t].st_obj
    /\ _read_lock = NoThread => _routes.obj = _stations.obj
    /\ \A t \in Threads :
           pc[t] \in {"alerts", "feed", "publish"}
               => local[t].obj \notin {_routes.obj, _stations.obj}

C1_BuildStep ==
    \A t \in Threads :
        pc[t] \in {"update", "alerts", "feed"} /\ local'[t] # local[t]
            => _stations' = _stations /\ _routes' = _routes

C1_AtomicSnapshot == []C1_Consistent /\ [][C1_BuildStep]_vars

\* a get_by_route has returned a snapshot built after construction while
\* another thread is between its two assignments of the publish
C1_Witness ==
    \E t \in Readers : \E u \in Threads \ {t} :
        /\ HasRead(t) /\ local[t].q.kind = "get_by_route"
        /\ local[t].st_obj > 0
        /\ pc[u] = "set_stations"

\* C2: monotonic visibility: a read returns no snapshot whose build
\* timestamp is below that of a snapshot published before the read started.
C2_MonotonicVisibility ==
    \A t \in Readers : HasRead(t) => local[t].st_ts >= local[t].pub

\* C3: in passive mode a query runs a rebuild if and only if expires_seconds
\* is nonzero and the age of the snapshot readers see is above it.
C3_RebuildIffStale ==
    [][\A t \in Readers :
           IsCall(t) /\ ~cfg.THREADED
               => ((pc'[t] = "update")
                   <=> (cfg.EXPIRES_SECONDS # 0
                        /\ (now - _stations.ts) * SecondsPerTick > cfg.EXPIRES_SECONDS))]_vars

\* C4, the part on network I/O: a query called while another thread's
\* rebuild is in progress never runs a rebuild, and so never a fetch, itself.
C4_NeverFetches ==
    \A t \in Readers : local[t].busy => pc[t] \notin {"update"} \cup BuildPcs

\* C4, for the queries that find the snapshot fresh: a query called while
\* another thread's rebuild is in progress, and for which is_expired
\* answered false, returns without a rebuild of its own, however long the
\* other rebuild hangs.
C4_ReaderReturns ==
    \A t \in Readers :
        (pc[t] = "read" /\ local[t].busy /\ local[t].obj = 0)
            ~> (HasRead(t) /\ local[t].obj = 0)

\* a query called during the rebuild of a thread that is still in a fetch
\* has returned the snapshot published before that rebuild began
C4_Witness ==
    \E t \in Readers : \E u \in Threads \ {t} :
        /\ HasRead(t) /\ local[t].busy /\ local[t].obj = 0
        /\ pc[u] \in FetchPcs
        /\ local[t].st_obj < local[u].obj

\* C5: in active mode a query called while the timer thread is alive runs
\* no rebuild on the calling thread.
C5_TimerOwnsRefresh ==
    [][\A t \in Readers :
           IsCall(t) /\ cfg.THREADED /\ threader.alive => pc'[t] # "update"]_vars

(***************************************************************************)
(* Properties of a rebuild and of the lookups.                             *)
(***************************************************************************)
\* the decoded feed mta_data reports the arrival e at station id, direction d
Reports(mta_data, id, d, e) ==
    /\ mta_data.ok
    /\ \E i \in 1..Len(mta_data.entity) :
           LET trip == mta_data.entity[i]
           IN  /\ trip.valid
               /\ Upper(trip.route_id) = e.route
               /\ DirectionKey(trip.direction) = d
               /\ \E j \in 1..Len(trip.stop_time_update) :
                      LET u == trip.stop_time_update[j]
                      IN  /\ u.time = e.time
                          /\ u.stop_id \in StopIds
                          /\ stops_to_stations[u.stop_id] = id

\* the arrivals of the published snapshot that some endpoint of its cycle,
\* one that succeeded, reports
FromThisCycle ==
    \A id \in StationIds, d \in Directions :
        \A k \in 1..Len(_stations.map[id].trains[d]) :
            \E i \in 1..Len(_stations.src) :
                Reports(_stations.src[i], id, d, _stations.map[id].trains[d][k])

\* every endpoint of the cycle was asked, and every arrival that one of them
\* reports inside the window was added to its station
EveryEndpointProcessed ==
    /\ Len(_stations.src) = NumFeeds
    /\ \A i \in 1..Len(_stations.src) : \A id \in StationIds, d \in Directions :
           \A route \in RouteIds, time \in _stations.ts..(_stations.ts + cfg.MAX_MINUTES) :
               Reports(_stations.src[i], id, d, [route |-> route, time |-> time])
                   => \E k \in 1..Len(_stations.added[id].trains[d]) :
                          _stations.added[id].trains[d][k] = [route |-> route, time |-> time]

\* C6: whatever endpoints fail in a cycle, the rebuild asks every endpoint,
\* completes and publishes, and the trains of the published snapshot come
\* from the endpoints that succeeded in its cycle.
C6_PartialFailure ==
    /\ \A t \in Threads : local[t].error # "UnboundLocalError"
    /\ EveryEndpointProcessed
    /\ FromThisCycle

\* C7: get_by_id with an id that the snapshot lacks, and get_by_route with
\* a route that the route index lacks, each end in an error.
C7_LookupFailure ==
    \A t \in Readers :
        HasRead(t) =>
            /\ (local[t].q.kind = "get_by_id"
                /\ \E i \in 1..Len(local[t].q.ids) :
                       local[t].q.ids[i] \notin DOMAIN _stations.map)
                   => local[t].error = "KeyError"
            /\ (local[t].q.kind = "get_by_route"
                /\ local[t].q.route \notin local[t].keys)
                   => local[t].error # ""

Min(a, b) == IF a < b THEN a ELSE b
Count(seq, e) == Cardinality({k \in 1..Len(seq) : seq[k] = e})
CountUpTo(seq, x) == Cardinality({k \in 1..Len(seq) : seq[k].time <= x})
Times(seq) == {seq[k].time : k \in 1..Len(seq)}

\* pub is sorted by time, holds at most max_trains entries, and these are
\* the earliest of all
EarliestOf(pub, all, max_trains) ==
    /\ Len(pub) = Min(Len(all), max_trains)
    /\ \A k \in 1..(Len(pub) - 1) : pub[k].time <= pub[k + 1].time
    /\ \A k \in 1..Len(pub) : Count(pub, pub[k]) <= Count(all, pub[k])
    /\ \A x \in Times(all) : CountUpTo(pub, x) = Min(Len(pub), CountUpTo(all, x))

\* C8: after every rebuild the train list of every station and direction
\* has at most max_trains entries, is non-decreasing by time, and holds the
\* earliest of the entries added in the cycle.
C8_SortedAndCapped ==
    \A id \in StationIds, d \in Directions :
        EarliestOf(_stations.map[id].trains[d], _stations.added[id].trains[d],
                   cfg.MAX_TRAINS)

\* a rebuild has published a list for which more than max_trains entries
\* were added, the first of them not the earliest
C8_Witness ==
    /\ _stations.obj > 0
    /\ \E id \in StationIds, d \in Directions :
           LET all == _stations.added[id].trains[d]
           IN  /\ Len(all) > cfg.MAX_TRAINS
               /\ \E k \in 2..Len(all) : all[k].time < all[1].time

\* C9: after every rebuild the routes of every published station are the
\* route ids of the trains in its published lists.
C9_RoutesOfTrains ==
    \A id \in StationIds :
        _stations.map[id].routes = _get_station_routes(_stations.map[id])

\* C10: no station of a published snapshot holds two alerts of one header
\* text.
C10_NoDuplicateAlert ==
    \A id \in StationIds :
        \A i, j \in 1..Len(_stations.map[id].alerts) :
            i # j => _stations.map[id].alerts[i].header_text
                         # _stations.map[id].alerts[j].header_text

\* the alert has an informed entity that matches the station, by stop or by
\* route
AlertMatches(alert, st) ==
    \E k \in 1..Len(alert.informed_entity) :
        \/ _alert_applies_to_stop(alert.informed_entity[k], st.json.stops)
        \/ /\ alert.informed_entity[k].has_route
           /\ alert.informed_entity[k].route_id \in _get_station_routes(st)

\* a rebuild has published a station that two active alerts of one text
\* match, the one by a stop and the other by a route
C10_Witness ==
    /\ _stations.obj > 0
    /\ \E id \in StationIds : \E i, j \in 1..Len(_stations.alerts) :
           /\ i # j
           /\ _get_alert_text(_stations.alerts[i], "en-html") = "T1"
           /\ _get_alert_text(_stations.alerts[j], "en-html") = "T1"
           /\ AlertMatches(_stations.alerts[i], _stations.map[id])
           /\ AlertMatches(_stations.alerts[j], _stations.map[id])
           /\ \E k \in 1..Len(_stations.map[id].alerts) :
                  _stations.map[id].alerts[k] = [type |-> "stop", header_text |-> "T1"]

(***************************************************************************)
(* Properties of the content of a snapshot.                                *)
(***************************************************************************)
\* C11: every train of the snapshot readers see has a time from the build
\* timestamp of that snapshot to max_minutes after it, also when rebuilds
\* overlap.
C11_TrainsInWindow ==
    \A id \in StationIds, d \in Directions :
        \A k \in 1..Len(_stations.map[id].trains[d]) :
            /\ _stations.ts <= _stations.map[id].trains[d][k].time
            /\ _stations.map[id].trains[d][k].time <= _stations.ts + cfg.MAX_MINUTES

\* C12: get_by_route returns the stations that own the stops of the route,
\* ascending by name, each station once.
C12_RouteStationsOnce ==
    \A t \in Readers :
        HasRead(t) /\ local[t].q.kind = "get_by_route" =>
            LET out == local[t].out
            IN  /\ \A i \in 1..(Len(out) - 1) : out[i].name <= out[i + 1].name
                /\ {out[i].stops : i \in 1..Len(out)}
                       = {Catalog[stops_to_stations[k]].stops : k \in local[t].stops}
                /\ \A i, j \in 1..Len(out) : i # j => out[i].stops # out[j].stops

\* C13: get_by_point returns min(limit, number of stations) serialized
\* stations of the snapshot, in non-decreasing order of distance from the
\* point, and no station it leaves out is closer than one it returns.
C13_NearestFirst ==
    \A t \in Readers :
        HasRead(t) /\ local[t].q.kind = "get_by_point" =>
            LET out == local[t].out
                point == local[t].q.point
                In(id) == \E i \in 1..Len(out) : out[i] = serialize(_stations.map[id])
            IN  /\ Len(out) = Min(local[t].q.limit, Cardinality(StationIds))
                /\ \A i \in 1..Len(out) : \E id \in StationIds : out[i] = serialize(_stations.map[id])
                /\ \A i, j \in 1..Len(out) : i # j => out[i].stops # out[j].stops
                /\ \A i \in 1..(Len(out) - 1) :
                       distance(out[i].location, point) <= distance(out[i + 1].location, point)
                /\ \A id \in StationIds : ~In(id) =>
                       \A i \in 1..Len(out) :
                           distance(out[i].location, point)
                               <= distance(Catalog[id].location, point)

\* a get_by_point with limit 1 has returned the station that is second in
\* the stations file, the first being farther from the point
C13_Witness ==
    \E t \in Readers :
        /\ HasRead(t) /\ local[t].q.kind = "get_by_point"
        /\ local[t].q.limit = 1
        /\ Len(local[t].out) = 1
        /\ local[t].out[1].stops = Catalog[StationOrder[2]].stops
        /\ distance(Catalog[StationOrder[1]].location, local[t].q.point)
               > distance(Catalog[StationOrder[2]].location, local[t].q.point)

\* every trip endpoint of the cycle of the published snapshot answered with
\* an empty response, and the cycle had no active alert
AllEmpty ==
    /\ \A i \in 1..Len(_stations.src) :
           _stations.src[i].ok /\ _stations.src[i].entity = <<>>
    /\ _stations.alerts = <<>>

CatalogKept ==
    /\ DOMAIN _stations.map = StationIds
    /\ \A id \in StationIds : _stations.map[id].json = Catalog[id]

EmptyWhenAllEmpty ==
    AllEmpty => \A id \in StationIds, d \in Directions : _stations.map[id].trains[d] = <<>>

\* a publish that follows a snapshot of empty responses with another of
\* empty responses leaves the content of the snapshot as it was
SameWhenRepeated ==
    (_stations' # _stations /\ _stations.obj > 0 /\ AllEmpty /\ AllEmpty')
        => _stations'.map = _stations.map

\* C14: after any sequence of rebuilds the published snapshot has the
\* station ids and the catalog fields loaded at startup; a rebuild in which
\* every endpoint returns an empty response publishes empty train lists,
\* and repeating it publishes the same content.
C14_CatalogAndEmptyRebuild ==
    /\ [](CatalogKept /\ EmptyWhenAllEmpty)
    /\ [][SameWhenRepeated]_vars

\* a second or later rebuild has published a snapshot made of empty
\* responses
C14_Witness == _stations.obj >= 2 /\ AllEmpty

(***************************************************************************)
(* Properties of the alerts of a snapshot.                                 *)
(***************************************************************************)
HasLanguage(alert, language) ==
    \E i \in 1..Len(alert.translation) : alert.translation[i].language = language

\* the text of the first translation of the header in the language
TextIn(alert, language) ==
    LET first == CHOOSE i \in 1..Len(alert.translation) :
                     /\ alert.translation[i].language = language
                     /\ \A j \in 1..(i - 1) : alert.translation[j].language # language
    IN  alert.translation[first].text

\* the header text an alert is to be shown with: that of the preferred
\* language, else the English one, else none
HeaderText(alert) ==
    IF HasLanguage(alert, "en-html") THEN TextIn(alert, "en-html")
    ELSE IF HasLanguage(alert, "en") THEN TextIn(alert, "en")
    ELSE None

\* every active alert with a header text is attached, with that text, to
\* the stations it matches
FallbackUsed ==
    \A id \in StationIds : \A i \in 1..Len(_stations.alerts) :
        (HeaderText(_stations.alerts[i]) \notin {None, ""}
         /\ AlertMatches(_stations.alerts[i], _stations.map[id]))
            => \E k \in 1..Len(_stations.map[id].alerts) :
                   _stations.map[id].alerts[k].header_text = HeaderText(_stations.alerts[i])

\* C15: an alert with no preferred-language header but an English one, at
\* any position, is attached with the English text; an alert with neither,
\* one with no translation included, is skipped and the rebuild goes on.
C15_EnglishFallback ==
    /\ FallbackUsed
    /\ \A t \in Threads : local[t].error = "UnboundLocalError" => ~cfg.GET_SERVICE_ALERTS

\* the informed entity matches the station by a stop, or by a route of its
\* published trains
EntityMatches(informed, st) ==
    \/ _alert_applies_to_stop(informed, st.json.stops)
    \/ informed.has_route /\ informed.route_id \in _get_station_routes(st)

\* what the first informed entity that matches the station decides
Decides(alert, st) ==
    LET M == {k \in 1..Len(alert.informed_entity) :
                 EntityMatches(alert.informed_entity[k], st)}
    IN  IF M = {} THEN "none"
        ELSE LET first == CHOOSE k \in M : \A j \in M : k <= j
             IN  IF _alert_applies_to_stop(alert.informed_entity[first], st.json.stops)
                 THEN "stop" ELSE "route"

\* the alerts a station is to hold: the alerts in feed order, each with its
\* header text and the type decided, a text held already not added again
RECURSIVE ExpectedAlerts(_, _, _, _)
ExpectedAlerts(st, alerts, i, held) ==
    IF i > Len(alerts) THEN held
    ELSE LET text == HeaderText(alerts[i])
             type == Decides(alerts[i], st)
             skip == \/ text \in {None, ""}
                     \/ type = "none"
                     \/ \E k \in 1..Len(held) : held[k].header_text = text
         IN  ExpectedAlerts(st, alerts, i + 1,
                            IF skip THEN held
                            ELSE Append(held, [type |-> type, header_text |-> text]))

\* C16: for every station and active alert with a header text, the first
\* informed entity that matches the station decides: type stop if its stop
\* matches, else type route if its route is one of the station's published
\* trains; an alert that matches by no entity attaches nothing.
C16_FirstMatchDecides ==
    \A id \in StationIds :
        _stations.map[id].alerts
            = ExpectedAlerts(_stations.map[id], _stations.alerts, 1, <<>>)

\* the stop id is a stop of the station, or one followed by a single
\* direction suffix N or S
MatchesBySuffix(stop_id, station_stops) ==
    \E s \in station_stops :
        \/ stop_id = s
        \/ /\ stop_id # <<>>
           /\ stop_id[Len(stop_id)] \in {"N", "S"}
           /\ SubSeq(stop_id, 1, Len(stop_id) - 1) = s

\* C17: an informed stop id matches a station if and only if it is a stop id
\* of the station or one with a single trailing N or S: a station holds an
\* alert of type stop only for an alert with such an informed stop id, and
\* holds every alert whose first informed entity has such a stop id.
C17_SingleSuffixMatch ==
    \A id \in StationIds :
        /\ \A k \in 1..Len(_stations.map[id].alerts) :
               _stations.map[id].alerts[k].type = "stop" =>
                   \E i \in 1..Len(_stations.alerts) :
                       /\ _get_alert_text(_stations.alerts[i], "en-html")
                              = _stations.map[id].alerts[k].header_text
                       /\ \E j \in 1..Len(_stations.alerts[i].informed_entity) :
                              /\ _stations.alerts[i].informed_entity[j].has_stop
                              /\ MatchesBySuffix(_stations.alerts[i].informed_entity[j].stop_id,
                                                 Catalog[id].stops)
        /\ \A i \in 1..Len(_stations.alerts) :
               (/\ _get_alert_text(_stations.alerts[i], "en-html") \notin {None, "", Unbound}
                /\ _stations.alerts[i].informed_entity # <<>>
                /\ _stations.alerts[i].informed_entity[1].has_stop
                /\ MatchesBySuffix(_stations.alerts[i].informed_entity[1].stop_id,
                                   Catalog[id].stops))
                   => \E k \in 1..Len(_stations.map[id].alerts) :
                          _stations.map[id].alerts[k].header_text
                              = _get_alert_text(_stations.alerts[i], "en-html")

(***************************************************************************)
(* Properties of the published state.                                      *)
(***************************************************************************)
\* the step is one of a query of t that runs no rebuild: its read, or the
\* whole of a get_routes
ReadOnlyStep(t) ==
    \/ pc[t] \in {"read", "read_stations"} /\ pc'[t] # pc[t] /\ local[t].obj = 0
    \/ pc[t] = "idle" /\ pc'[t] = "done"

\* C18: a query that triggers no rebuild leaves the published station map
\* and the published route index, and so the keys get_routes returns, as
\* they were, whatever its arguments.
C18_QueriesReadOnly ==
    [][\A t \in Readers :
           ReadOnlyStep(t) => _stations' = _stations /\ _routes' = _routes]_vars

\* C19: the timestamp that last_update() reports and is_expired uses is the
\* build timestamp of the snapshot that queries read.
C19_TimestampOfSnapshot == _last_update = _stations.ts

\* the alerts endpoint was asked in the cycle of the published snapshot and
\* its fetch failed
AlertsFetchFailed ==
    cfg.GET_SERVICE_ALERTS /\ _stations.obj > 0 /\ ~_stations.alerts_src.ok

\* the snapshot of such a cycle: no alert at any station, and the trains of
\* the trip feeds of the cycle
TrainsAndNoAlerts ==
    AlertsFetchFailed =>
        /\ \A id \in StationIds : _stations.map[id].alerts = <<>>
        /\ EveryEndpointProcessed
        /\ FromThisCycle
        /\ \A id \in StationIds, d \in Directions :
               EarliestOf(_stations.map[id].trains[d], _stations.added[id].trains[d],
                          cfg.MAX_TRAINS)

\* a rebuild whose alerts fetch failed does not end in an exception
NoAbortWithoutAlerts ==
    \A t \in Threads : local[t].error = "UnboundLocalError" => local[t].got_alerts.ok

\* such a rebuild goes from its last trip endpoint to the publish
GoesOnToPublish ==
    \A t \in Threads :
        (pc[t] = "feed" /\ pc'[t] # "feed" /\ ~local[t].got_alerts.ok)
            => pc'[t] = "publish"

\* C20: with service alerts enabled, a rebuild whose alerts fetch fails
\* completes and publishes a snapshot with the trains of the trip feeds and
\* with no alert at any station, stations that held alerts included.
C20_AlertsFetchFails ==
    /\ [](TrainsAndNoAlerts /\ NoAbortWithoutAlerts)
    /\ [][GoesOnToPublish]_vars

\* such a snapshot has replaced one in which a station held an alert, and
\* holds a train
C20_Witness ==
    /\ AlertsFetchFailed
    /\ _stations.had_alerts # {}
    /\ \E id \in StationIds, d \in Directions : _stations.map[id].trains[d] # <<>>

====
